---- MODULE Spec2Model ----
(***************************************************************************)
(* Model of the useWebSocket hook (reconnecting session manager).          *)
(*                                                                         *)
(* React state (connectionState, reconnectAttempts, messages, lastMessage) *)
(* and refs (wsRef, reconnectTimeoutRef, pingIntervalRef, mountedRef) are  *)
(* variables.  The browser side is explicit: every WebSocket the hook has  *)
(* constructed keeps its readyState and the reconnectAttempts value its    *)
(* handlers captured, and every setTimeout / setInterval that is scheduled *)
(* and not cleared is kept in a set, whether or not a ref still points to  *)
(* it.  A transport, the timeout scheduled by its onclose and the interval *)
(* started by its onopen share one identifier (each handler fires at most  *)
(* once per transport).                                                    *)
(*                                                                         *)
(* connect is a useCallback whose dependency list contains                 *)
(* reconnectAttempts, and the mount effect depends on connect: a commit in *)
(* which reconnectAttempts differs from the value of the previous commit   *)
(* runs the effect's teardown and then the effect again (action Rerender). *)
(* Transport events are delivered by the network and may arrive between a  *)
(* handler's setState and that commit; a reconnect timeout does not fire   *)
(* while a commit is outstanding.                                          *)
(***************************************************************************)
EXTENDS Integers, Sequences, FiniteSets, TLC

\* ---- bounds of the model ----
MaxTransports == 4        \* WebSockets constructed, session manager alone (Spec)
MaxTransportsIO == 2      \* WebSockets constructed, with frames in flight (SpecIO)
MaxMessages == 1          \* inbound frames kept in messages
MaxSent == 1              \* outbound frames recorded
MaxReconnectAttempts == 1 \* the maxReconnectAttempts option (default 5)
MaxTransportsWF == 2      \* WebSockets constructed under useWorkflowWebSocket (SpecSub, SpecAgg)
MaxMessagesWF == 2        \* inbound frames kept in messages (SpecSub, SpecAgg)
MaxSentWF == 2            \* subscribe frames recorded (SpecSub)
MaxUpdates == 2           \* updates kept in workflowUpdates (SpecAgg)
MaxTransportsLive == 3    \* WebSockets constructed under fairness (SpecLive)
MaxLog == 2               \* Envelopes kept in the log between two clears (SpecLog)

\* ---- program values ----
NormalClosure == 1000
AbnormalClosure == 1006

CONNECTING == "connecting"
CONNECTED == "connected"
DISCONNECTED == "disconnected"
RECONNECTING == "reconnecting"
ERROR == "error"

WebSocketState == {CONNECTING, CONNECTED, DISCONNECTED, RECONNECTING, ERROR}

CloseCodes == {NormalClosure, AbnormalClosure}
RawFrames == {"hello", "{pong}", "{agent_status}", "{workflow_completed}"}
\* the frames a server without workflows sends
PlainFrames == {"hello", "{pong}"}
\* the frames the subscribe effect meets
UpdateFrames == {"{agent_status}"}
\* the frames the aggregator meets
WorkflowFrames == {"{pong}", "{agent_status}", "{workflow_completed}"}
\* frames of every kind the aggregator tells apart: undecodable, a type it
\* knows and ignores, a type nobody knows, a type it consumes
MixedFrames == {"hello", "{pong}", "{custom}", "{agent_status}"}
\* updates of two workflows
TopicFrames == {"{agent_status}", "{agent_status:w2}"}
\* progress_percentage of an update that carries none (undefined)
NoProgress == -1

\* a field the JSON object does not carry (undefined)
Absent == "absent"

\* outbound frames, before JSON.stringify
Frame(type, wid) == [type |-> type, workflow_id |-> wid]
AppFrame == Frame("app", Absent)
PingFrame == Frame("ping", Absent)
SubscribeFrame(wid) == Frame("subscribe", wid)
Outbound == {AppFrame}

WorkflowIds == {"w1", "w2"}
NoWorkflow == "none"

\* a WebSocketMessage; timestamp is left out
Message(type, content, status, message, progress, agent) ==
    [type |-> type, content |-> content, status |-> status, message |-> message,
     progress_percentage |-> progress, agent_name |-> agent, workflow_id |-> Absent]

\* a WorkflowUpdate: a WebSocketMessage that carries a workflow_id
Update(type, wid, status, message, progress, agent) ==
    [Message(type, Absent, status, message, progress, agent) EXCEPT !.workflow_id = wid]

NoMessage == Message("null", Absent, Absent, Absent, NoProgress, Absent)
NoStatus == [status |-> "null", progress |-> 0, currentAgent |-> "", message |-> "null"]
NoEvent == [op |-> "init", t |-> 0, code |-> 0]

VARIABLES
    connectionState,      \* useState: WebSocketState
    reconnectAttempts,    \* useState: number
    lastMessage,          \* useState: WebSocketMessage | null
    messages,             \* useState: WebSocketMessage[]
    wsRef,                \* useRef: transport id, 0 = null
    reconnectTimeoutRef,  \* useRef: timeout id, 0 = null
    pingIntervalRef,      \* useRef: interval id, 0 = null
    mountedRef,           \* useRef: boolean
    transports,           \* every WebSocket constructed so far, in order
    pendingTimers,        \* timeouts scheduled, not cleared, not fired
    pendingIntervals,     \* intervals started and not cleared
    connectDep,           \* reconnectAttempts captured by the committed connect
    phase,                \* "rendered" | "mounted" | "unmounted"
    urlValid,             \* whether new WebSocket(wsUrl) succeeds for this url
    sent,                 \* frames handed to WebSocket.send
    lastEvent,            \* history: the handler that ran last
    closedNormally,       \* history: a code-1000 close was handled, no reconnect() since
    onlyFailures,         \* history: no open, no normal close, no reconnect() so far
    workflowId,           \* useWorkflowWebSocket argument, NoWorkflow = undefined
    workflowUpdates,      \* useState: WorkflowUpdate[]
    currentWorkflowStatus,\* useState: status snapshot | null
    subscribeCond,        \* isConnected && workflowId in the last commit
    msgFresh,             \* lastMessage changed since the last commit
    edges,                \* history: false-to-true transitions of subscribeCond
    cleared,              \* history: clearMessages or clearWorkflowUpdates was called
    mountedWrites,        \* history: the values the last run of the mount effect or
                          \* of its teardown assigned to mountedRef.current, in order
    manualReset           \* history: 1 = the last reconnect() came at exhausted budget
                          \* and no retry was scheduled since, 2 = the first retry
                          \* since has just been scheduled, 0 = otherwise

vars == <<connectionState, reconnectAttempts, lastMessage, messages, wsRef,
          reconnectTimeoutRef, pingIntervalRef, mountedRef, transports,
          pendingTimers, pendingIntervals, connectDep, phase,
          urlValid, sent, lastEvent, closedNormally, onlyFailures, manualReset,
          workflowId, workflowUpdates, currentWorkflowStatus, subscribeCond,
          msgFresh, edges, cleared, mountedWrites>>

hookState == <<connectionState, reconnectAttempts, lastMessage, messages>>
sessionRefs == <<wsRef, reconnectTimeoutRef, pingIntervalRef>>
browser == <<transports, pendingTimers, pendingIntervals>>
history == <<closedNormally, onlyFailures, manualReset>>
workflow == <<workflowId, workflowUpdates, currentWorkflowStatus, subscribeCond, edges>>
fresh == <<msgFresh, cleared>>
flag == <<mountedRef, mountedWrites>>

nCreated == Len(transports)
TransportIds == 1..Len(transports)

\* The refs and the browser resources they point into, as one value.
Session ==
    [ws |-> wsRef, rt |-> reconnectTimeoutRef, pi |-> pingIntervalRef,
     tr |-> transports, timers |-> pendingTimers, intervals |-> pendingIntervals]

Ev(op, t, code) == [op |-> op, t |-> t, code |-> code]

\* ---- WebSocket.close(): readyState after the call ----
CloseCall(rs) ==
    IF rs \in {"connecting", "open"} THEN "closing" ELSE rs

\* ---- cleanup() ----
ClearReconnectTimeout(s) ==
    IF s.rt # 0 THEN [s EXCEPT !.timers = @ \ {s.rt}, !.rt = 0] ELSE s

KeepPingInterval(s) == s

ForgetPingInterval(s) == [s EXCEPT !.pi = 0]

ClearPingInterval(s) ==
    IF s.pi # 0 THEN [s EXCEPT !.intervals = @ \ {s.pi}, !.pi = 0] ELSE s

DropHandle(s) ==
    IF s.ws # 0 THEN [s EXCEPT !.ws = 0] ELSE s

CloseTransport(s) ==
    IF s.ws # 0
    THEN [s EXCEPT !.tr[s.ws].rs = CloseCall(@), !.ws = 0]
    ELSE s

cleanup(s) == CloseTransport(ClearPingInterval(ClearReconnectTimeout(s)))

\* ---- connect(), for the closure that captured reconnectAttempts = cap ----
NewWebSocket(s, cap) ==
    [s EXCEPT !.tr = Append(@, [rs |-> "connecting", opened |-> FALSE, cap |-> cap]),
              !.ws = Len(s.tr) + 1]

connectNoCleanup(s, cap, valid) ==
    IF valid THEN NewWebSocket(s, cap) ELSE s

connect(s, cap, valid) ==
    IF valid THEN NewWebSocket(cleanup(s), cap) ELSE cleanup(s)

connectStateNoCatch(valid) == CONNECTING

\* the state connect() leaves: CONNECTING, or ERROR from the catch branch
connectState(valid) == IF valid THEN CONNECTING ELSE ERROR

AlwaysMounted == TRUE

\* if (!mountedRef.current) return;
IsMounted == mountedRef

SetSession(s) ==
    /\ wsRef' = s.ws
    /\ reconnectTimeoutRef' = s.rt
    /\ pingIntervalRef' = s.pi
    /\ transports' = s.tr
    /\ pendingTimers' = s.timers
    /\ pendingIntervals' = s.intervals

\* connect's dependency list: its identity changes with reconnectAttempts
RenderPending == phase = "mounted" /\ connectDep # reconnectAttempts

\* ---- JSON.parse(event.data) ----
IsJSON(raw) == raw # "hello"

\* the object JSON.parse returns for the frames of RawFrames that parse
Parsed(raw) ==
    CASE raw = "{pong}" -> Message("pong", Absent, Absent, Absent, NoProgress, Absent)
      [] raw = "{agent_status}" ->
            Update("agent_status", "w1", "processing", "m1", 50, "Data")
      [] raw = "{agent_status:w2}" ->
            Update("agent_status", "w2", "processing", "m3", 50, "Data")
      [] raw = "{workflow_completed}" ->
            Update("workflow_completed", "w1", "completed", "m2", NoProgress, Absent)
      [] OTHER -> Message("unknown", Absent, Absent, Absent, NoProgress, Absent)

ParsedType(raw) == Parsed(raw).type

\* the catch branch: { type: 'text', content: event.data, timestamp }
TextEnvelope(raw) == Message("text", raw, Absent, Absent, NoProgress, Absent)

EnvelopeWithoutData(raw) ==
    IF IsJSON(raw) THEN Parsed(raw) ELSE TextEnvelope(Absent)

\* the Envelope onmessage publishes for a raw frame
Envelope(raw) ==
    IF IsJSON(raw) THEN Parsed(raw) ELSE TextEnvelope(raw)

onmessagePrepend(last, log, raw) ==
    [last |-> Envelope(raw), log |-> <<Envelope(raw)>> \o log]

onmessageLastOnly(last, log, raw) ==
    IF IsJSON(raw)
    THEN [last |-> Envelope(raw), log |-> Append(log, Envelope(raw))]
    ELSE [last |-> Envelope(raw), log |-> log]

\* ---- ws.onmessage: setLastMessage(m); setMessages(prev => [...prev, m]) ----
onmessage(last, log, raw) ==
    [last |-> Envelope(raw), log |-> Append(log, Envelope(raw))]

RetryAtLimit(code, cap) ==
    code # NormalClosure /\ cap <= MaxReconnectAttempts

\* ---- ws.onclose: reconnection test, with the captured reconnectAttempts ----
ShouldRetry(code, cap) ==
    code # NormalClosure /\ cap < MaxReconnectAttempts

\* close codes the browser can report for a transport
CodesFor(tr) ==
    IF tr.opened /\ tr.rs \in {"open", "closing"} THEN CloseCodes ELSE {AbnormalClosure}

\* wsRef.current?.readyState === WebSocket.OPEN
CanSend(s) == s.ws # 0 /\ s.tr[s.ws].rs = "open"

sendMessageReconnects(s, log, m) ==
    IF CanSend(s)
    THEN [s |-> s, log |-> Append(log, [ws |-> s.ws, frame |-> m])]
    ELSE [s |-> cleanup(s), log |-> log]

\* ---- sendMessage(message): the session and the frames sent afterwards ----
sendMessage(s, log, m) ==
    IF CanSend(s)
    THEN [s |-> s, log |-> Append(log, [ws |-> s.ws, frame |-> m])]
    ELSE [s |-> s, log |-> log]

NoReconnectTimeout(s, t) == s

\* ---- ws.onclose: reconnectTimeoutRef.current = setTimeout(..., reconnectInterval) ----
ScheduleReconnect(s, t) ==
    [s EXCEPT !.rt = t, !.timers = s.timers \cup {t}]

\* ---- ws.onopen: pingIntervalRef.current = setInterval(sendPing, 30000) ----
NoPingInterval(s, t) == s

StartPingInterval(s, t) ==
    [s EXCEPT !.pi = t, !.intervals = s.intervals \cup {t}]

\* ---- useWorkflowWebSocket ----
AnyTypeIsUpdate(m) == m.type # "pong"

\* the message types the lastMessage effect keeps
IsWorkflowUpdate(m) == m.type \in {"workflow_started", "workflow_completed", "agent_status"}

\* x || fallback for the optional fields
OrElse(x, falsy, fallback) == IF x \in falsy THEN fallback ELSE x

StatusOf(u) ==
    [status |-> u.status,
     progress |-> OrElse(u.progress_percentage, {NoProgress, 0}, 0),
     currentAgent |-> OrElse(u.agent_name, {Absent, ""}, ""),
     message |-> u.message]

foldStatusMerging(prev, u) ==
    [StatusOf(u) EXCEPT !.currentAgent = OrElse(u.agent_name, {Absent, ""}, prev.currentAgent)]

\* setCurrentWorkflowStatus({...}) in the lastMessage effect
foldStatus(prev, u) == StatusOf(u)

MessageEffectAlways == TRUE

MessageEffectOnConnect == msgFresh \/ RenderPending

\* the lastMessage effect runs when webSocket.lastMessage is a new object
MessageEffectDue == msgFresh

SubscribeOnEdge == ~subscribeCond

\* the subscribe effect runs in every commit: its dependency list names the
\* object useWebSocket returns, which is a new object in every render
SubscribeEffectDue == TRUE

\* isConnected as rendered
isConnected == connectionState = CONNECTED

showReconnectButtonOnErrorOnly(cs) == cs = ERROR

\* WebSocketStatus: the Reconnect button is rendered
showReconnectButton(cs) == cs = ERROR \/ cs = DISCONNECTED

SubscribeWhateverState(wid) == wid # NoWorkflow

\* if (webSocket.isConnected && workflowId), for the workflowId of the render
SubscribeConditionFor(wid) == isConnected /\ wid # NoWorkflow

SubscribeCondition == SubscribeConditionFor(workflowId)

\* the subscribe effect calls sendMessage in this commit
SubscribeDueFor(wid) == SubscribeEffectDue /\ SubscribeConditionFor(wid)

SubscribeDue == SubscribeDueFor(workflowId)

ConsumeDueForTopic ==
    /\ MessageEffectDue
    /\ lastMessage # NoMessage
    /\ IsWorkflowUpdate(lastMessage)
    /\ lastMessage.workflow_id = workflowId

\* the lastMessage effect appends lastMessage in this commit
ConsumeDue == MessageEffectDue /\ lastMessage # NoMessage /\ IsWorkflowUpdate(lastMessage)

InitHook ==
    /\ connectionState = DISCONNECTED
    /\ reconnectAttempts = 0
    /\ lastMessage = NoMessage
    /\ messages = <<>>
    /\ wsRef = 0
    /\ reconnectTimeoutRef = 0
    /\ pingIntervalRef = 0
    /\ mountedRef = TRUE
    /\ mountedWrites = <<>>
    /\ transports = <<>>
    /\ pendingTimers = {}
    /\ pendingIntervals = {}
    /\ connectDep = 0
    /\ phase = "rendered"
    /\ urlValid \in BOOLEAN
    /\ sent = <<>>
    /\ lastEvent = NoEvent
    /\ closedNormally = FALSE
    /\ onlyFailures = TRUE
    /\ manualReset = 0
    /\ workflowUpdates = <<>>
    /\ currentWorkflowStatus = NoStatus
    /\ subscribeCond = FALSE
    /\ msgFresh = FALSE
    /\ edges = 0
    /\ cleared = FALSE

\* useWebSocket used without a workflow
Init == InitHook /\ workflowId = NoWorkflow

\* useWorkflowWebSocket(clientId, workflowId)
InitSub == InitHook /\ workflowId \in WorkflowIds

\* useEffect(() => { mountedRef.current = true; connect(); ... }, [connect, cleanup])
MountEffect ==
    /\ phase = "rendered"
    /\ phase' = "mounted"
    /\ mountedRef' = TRUE
    /\ mountedWrites' = <<TRUE>>
    /\ SetSession(connect(Session, reconnectAttempts, urlValid))
    /\ connectionState' = connectState(urlValid)
    /\ connectDep' = reconnectAttempts
    /\ lastEvent' = Ev("mount", 0, 0)
    /\ UNCHANGED <<reconnectAttempts, lastMessage, messages, urlValid, sent, history>>
    /\ UNCHANGED workflow
    /\ UNCHANGED fresh

\* connect changed identity: the effect's teardown runs (mountedRef.current =
\* false; cleanup()), then the effect (mountedRef.current = true; connect()).
Rerender ==
    /\ RenderPending
    /\ mountedRef' = TRUE
    /\ mountedWrites' = <<FALSE, TRUE>>
    /\ SetSession(connect(cleanup(Session), reconnectAttempts, urlValid))
    /\ connectionState' = connectState(urlValid)
    /\ connectDep' = reconnectAttempts
    /\ lastEvent' = Ev("rerender", 0, 0)
    /\ UNCHANGED <<reconnectAttempts, lastMessage, messages, phase, urlValid, sent,
                   history>>
    /\ UNCHANGED workflow
    /\ UNCHANGED fresh

\* final teardown: return () => { mountedRef.current = false; cleanup(); }
Unmount ==
    /\ phase = "mounted"
    /\ phase' = "unmounted"
    /\ mountedRef' = FALSE
    /\ mountedWrites' = <<FALSE>>
    /\ SetSession(cleanup(Session))
    /\ lastEvent' = Ev("unmount", 0, 0)
    /\ UNCHANGED <<hookState, connectDep, urlValid, sent, history>>
    /\ UNCHANGED workflow
    /\ UNCHANGED fresh

ReconnectNoReset ==
    /\ phase = "mounted"
    /\ IF IsMounted
       THEN /\ SetSession(connect(Session, connectDep, urlValid))
            /\ connectionState' = connectState(urlValid)
       ELSE UNCHANGED <<sessionRefs, browser, connectionState>>
    /\ lastEvent' = Ev("reconnect", 0, 0)
    /\ closedNormally' = FALSE
    /\ onlyFailures' = FALSE
    /\ manualReset' = IF connectionState = DISCONNECTED
                         /\ reconnectAttempts >= MaxReconnectAttempts
                      THEN 1 ELSE 0
    /\ UNCHANGED <<reconnectAttempts, lastMessage, messages, flag, connectDep,
                   phase, urlValid, sent>>
    /\ UNCHANGED workflow
    /\ UNCHANGED fresh

\* reconnect(): setReconnectAttempts(0); connect()
Reconnect ==
    /\ phase = "mounted"
    /\ reconnectAttempts' = 0
    /\ IF IsMounted
       THEN /\ SetSession(connect(Session, connectDep, urlValid))
            /\ connectionState' = connectState(urlValid)
       ELSE UNCHANGED <<sessionRefs, browser, connectionState>>
    /\ lastEvent' = Ev("reconnect", 0, 0)
    /\ closedNormally' = FALSE
    /\ onlyFailures' = FALSE
    /\ manualReset' = IF connectionState = DISCONNECTED
                         /\ reconnectAttempts >= MaxReconnectAttempts
                      THEN 1 ELSE 0
    /\ UNCHANGED <<lastMessage, messages, flag, connectDep, phase, urlValid, sent>>
    /\ UNCHANGED workflow
    /\ UNCHANGED fresh

\* ws.onopen
OnOpen(t) ==
    /\ transports[t].rs = "connecting"
    /\ lastEvent' = Ev("open", t, 0)
    /\ IF IsMounted
       THEN /\ connectionState' = CONNECTED
            /\ reconnectAttempts' = 0
            /\ pingIntervalRef' = StartPingInterval(Session, t).pi
            /\ pendingIntervals' = StartPingInterval(Session, t).intervals
       ELSE UNCHANGED <<connectionState, reconnectAttempts, pingIntervalRef, pendingIntervals>>
    /\ transports' = [transports EXCEPT ![t].rs = "open", ![t].opened = TRUE]
    /\ onlyFailures' = FALSE
    /\ UNCHANGED <<lastMessage, messages, wsRef, reconnectTimeoutRef, flag,
                   pendingTimers, connectDep, phase, urlValid, sent,
                   closedNormally, manualReset>>
    /\ UNCHANGED workflow
    /\ UNCHANGED fresh

\* ws.onmessage
OnMessage(t, raw) ==
    /\ transports[t].rs \in {"open", "closing"}
    /\ transports[t].opened
    /\ lastEvent' = Ev("message", t, 0)
    /\ IF IsMounted
       THEN /\ lastMessage' = onmessage(lastMessage, messages, raw).last
            /\ messages' = onmessage(lastMessage, messages, raw).log
            /\ msgFresh' = TRUE
       ELSE UNCHANGED <<lastMessage, messages, msgFresh>>
    /\ cleared' = cleared
    /\ UNCHANGED <<connectionState, reconnectAttempts, sessionRefs, flag,
                   browser, connectDep, phase, urlValid, sent, history>>
    /\ UNCHANGED workflow

onerrorCleansUp(cs, s) == [cs |-> ERROR, s |-> cleanup(s)]

\* ---- ws.onerror, mounted: setConnectionState(WebSocketState.ERROR) ----
onerror(cs, s) == [cs |-> ERROR, s |-> s]

\* ws.onerror: the browser has already set readyState to CLOSED
OnError(t) ==
    /\ transports[t].rs \in {"connecting", "open", "closing"}
    /\ lastEvent' = Ev("error", t, 0)
    /\ LET failed == [Session EXCEPT !.tr[t].rs = "failed"]
           r == IF IsMounted THEN onerror(connectionState, failed)
                             ELSE [cs |-> connectionState, s |-> failed]
       IN  /\ connectionState' = r.cs
           /\ SetSession(r.s)
    /\ UNCHANGED <<reconnectAttempts, lastMessage, messages, flag,
                   connectDep, phase, urlValid, sent, history>>
    /\ UNCHANGED workflow
    /\ UNCHANGED fresh

\* ws.onclose
OnClose(t, code) ==
    /\ transports[t].rs \in {"connecting", "open", "closing", "failed"}
    /\ code \in CodesFor(transports[t])
    /\ lastEvent' = Ev("close", t, code)
    /\ transports' = [transports EXCEPT ![t].rs = "closed"]
    /\ IF IsMounted
       THEN LET s1 == ClearPingInterval(Session)
            IN  /\ pingIntervalRef' = s1.pi
                /\ pendingIntervals' = s1.intervals
                /\ IF ShouldRetry(code, transports[t].cap)
                   THEN /\ connectionState' = RECONNECTING
                        /\ reconnectAttempts' = reconnectAttempts + 1
                        /\ reconnectTimeoutRef' = ScheduleReconnect(Session, t).rt
                        /\ pendingTimers' = ScheduleReconnect(Session, t).timers
                   ELSE /\ connectionState' = DISCONNECTED
                        /\ UNCHANGED <<reconnectAttempts, reconnectTimeoutRef, pendingTimers>>
       ELSE UNCHANGED <<connectionState, reconnectAttempts, reconnectTimeoutRef,
                        pingIntervalRef, pendingTimers, pendingIntervals>>
    /\ closedNormally' = IF IsMounted /\ code = NormalClosure THEN TRUE ELSE closedNormally
    /\ onlyFailures' = IF code = NormalClosure THEN FALSE ELSE onlyFailures
    /\ manualReset' = IF IsMounted /\ ShouldRetry(code, transports[t].cap)
                      THEN (IF manualReset = 1 THEN 2 ELSE 0)
                      ELSE manualReset
    /\ UNCHANGED <<lastMessage, messages, wsRef, flag, connectDep,
                   phase, urlValid, sent>>
    /\ UNCHANGED workflow
    /\ UNCHANGED fresh

\* the callback given to setTimeout in ws.onclose; it runs the connect that
\* scheduled it.  It does not fire while a commit is outstanding.
TimerFire(t) ==
    /\ t \in pendingTimers
    /\ ~RenderPending
    /\ lastEvent' = Ev("timer", t, 0)
    /\ IF IsMounted
       THEN /\ SetSession(connect([Session EXCEPT !.timers = @ \ {t}],
                                  transports[t].cap, urlValid))
            /\ connectionState' = connectState(urlValid)
       ELSE /\ pendingTimers' = pendingTimers \ {t}
            /\ UNCHANGED <<connectionState, sessionRefs, transports, pendingIntervals>>
    /\ UNCHANGED <<reconnectAttempts, lastMessage, messages, flag, connectDep,
                   phase, urlValid, sent, history>>
    /\ UNCHANGED workflow
    /\ UNCHANGED fresh

\* sendMessage(message)
SendMessage(m) ==
    /\ phase = "mounted"
    /\ Len(sent) < MaxSent
    /\ LET r == sendMessage(Session, sent, m)
       IN  /\ SetSession(r.s)
           /\ sent' = r.log
    /\ lastEvent' = Ev(IF CanSend(Session) THEN "send" ELSE "warn", wsRef, 0)
    /\ UNCHANGED <<hookState, flag, connectDep, phase, urlValid, history>>
    /\ UNCHANGED workflow
    /\ UNCHANGED fresh

\* sendPing, called by the interval started in ws.onopen
SendPing(i) ==
    /\ i \in pendingIntervals
    /\ Len(sent) < MaxSent
    /\ CanSend(Session)
    /\ sent' = Append(sent, [ws |-> wsRef, frame |-> PingFrame])
    /\ lastEvent' = Ev("ping", wsRef, 0)
    /\ UNCHANGED <<hookState, sessionRefs, flag, browser, connectDep, phase,
                   urlValid, history>>
    /\ UNCHANGED workflow
    /\ UNCHANGED fresh

\* clearMessages()
ClearMessages ==
    /\ phase = "mounted"
    /\ messages # <<>>
    /\ messages' = <<>>
    /\ lastMessage' = NoMessage
    /\ msgFresh' = FALSE
    /\ cleared' = TRUE
    /\ lastEvent' = Ev("clear", 0, 0)
    /\ UNCHANGED <<connectionState, reconnectAttempts, sessionRefs, flag, browser,
                   connectDep, phase, urlValid, sent, history>>
    /\ UNCHANGED workflow

\* a commit of the component that calls useWorkflowWebSocket: the effects whose
\* dependencies changed run in the order of their declaration, the mount effect
\* of useWebSocket first, then the subscribe effect, then the lastMessage effect
CommitAs(wid, op) ==
    /\ phase = "mounted"
    /\ LET s0 == IF RenderPending
                 THEN connect(cleanup(Session), reconnectAttempts, urlValid)
                 ELSE Session
           r == IF SubscribeDueFor(wid)
                THEN sendMessage(s0, sent, SubscribeFrame(wid))
                ELSE [s |-> s0, log |-> sent]
       IN  /\ SetSession(r.s)
           /\ sent' = r.log
           /\ connectionState' = IF RenderPending THEN connectState(urlValid)
                                                  ELSE connectionState
           /\ mountedRef' = (RenderPending \/ mountedRef)
           /\ mountedWrites' = IF RenderPending THEN <<FALSE, TRUE>> ELSE mountedWrites
           /\ workflowUpdates' = IF ConsumeDue THEN Append(workflowUpdates, lastMessage)
                                              ELSE workflowUpdates
           /\ currentWorkflowStatus' =
                  IF ConsumeDue THEN foldStatus(currentWorkflowStatus, lastMessage)
                              ELSE currentWorkflowStatus
    /\ connectDep' = reconnectAttempts
    /\ msgFresh' = FALSE
    /\ subscribeCond' = SubscribeConditionFor(wid)
    /\ edges' = IF SubscribeConditionFor(wid) /\ ~subscribeCond THEN edges + 1 ELSE edges
    /\ workflowId' = wid
    /\ lastEvent' = Ev(op, 0, 0)
    /\ UNCHANGED <<reconnectAttempts, lastMessage, messages, phase, urlValid,
                   history, cleared>>

\* a commit of a render with the same workflowId
Commit == CommitAs(workflowId, "commit")

\* the caller renders useWorkflowWebSocket(clientId, wid) with another workflowId
\* and React commits that render
SetWorkflowId(wid) ==
    /\ wid # workflowId
    /\ CommitAs(wid, "setWorkflowId")

\* clearWorkflowUpdates()
ClearWorkflowUpdates ==
    /\ phase = "mounted"
    /\ workflowUpdates' = <<>>
    /\ currentWorkflowStatus' = NoStatus
    /\ cleared' = TRUE
    /\ lastEvent' = Ev("clearUpdates", 0, 0)
    /\ UNCHANGED <<hookState, sessionRefs, flag, browser, connectDep, phase,
                   urlValid, sent, history, workflowId, subscribeCond, edges,
                   msgFresh>>

\* the bound on the WebSockets a behaviour constructs
Within(limit) == nCreated < limit

\* the bound on a log
Room(log, limit) == Len(log) < limit

\* the subscribe frames sent so far
SubscribeFrames == SelectSeq(sent, LAMBDA e : e.frame.type = "subscribe")

\* the session manager alone
Next ==
    \/ Within(MaxTransports) /\ MountEffect
    \/ Within(MaxTransports) /\ Rerender
    \/ Within(MaxTransports) /\ Reconnect
    \/ (Within(MaxTransports) \/ ~mountedRef) /\ \E t \in TransportIds : TimerFire(t)
    \/ Unmount
    \/ \E t \in TransportIds : OnOpen(t)
    \/ \E t \in TransportIds : OnError(t)
    \/ \E t \in TransportIds, code \in CloseCodes : OnClose(t, code)

Spec == Init /\ [][Next]_vars

\* the session manager with frames in flight
NextIO ==
    \/ Within(MaxTransportsIO) /\ MountEffect
    \/ Within(MaxTransportsIO) /\ Rerender
    \/ Within(MaxTransportsIO) /\ Reconnect
    \/ (Within(MaxTransportsIO) \/ ~mountedRef) /\ \E t \in TransportIds : TimerFire(t)
    \/ Unmount
    \/ \E t \in TransportIds : OnOpen(t)
    \/ \E t \in TransportIds : OnError(t)
    \/ \E t \in TransportIds, code \in CloseCodes : OnClose(t, code)
    \/ Room(messages, MaxMessages) /\ \E t \in TransportIds, raw \in PlainFrames : OnMessage(t, raw)
    \/ \E m \in Outbound : SendMessage(m)
    \/ \E i \in TransportIds : SendPing(i)
    \/ ClearMessages

SpecIO == Init /\ [][NextIO]_vars

\* the dispatcher log over a reconnection: frames, clears, no sends
NextLog ==
    \/ Within(MaxTransportsIO) /\ MountEffect
    \/ Within(MaxTransportsIO) /\ Rerender
    \/ Within(MaxTransportsIO) /\ Reconnect
    \/ (Within(MaxTransportsIO) \/ ~mountedRef) /\ \E t \in TransportIds : TimerFire(t)
    \/ Unmount
    \/ \E t \in TransportIds : OnOpen(t)
    \/ \E t \in TransportIds : OnError(t)
    \/ \E t \in TransportIds, code \in CloseCodes : OnClose(t, code)
    \/ Room(messages, MaxLog) /\ \E t \in TransportIds, raw \in PlainFrames : OnMessage(t, raw)
    \/ ClearMessages

SpecLog == Init /\ [][NextLog]_vars

\* the session manager when React commits every render and every timeout fires
NextLive ==
    \/ Within(MaxTransportsLive) /\ MountEffect
    \/ Within(MaxTransportsLive) /\ Rerender
    \/ Within(MaxTransportsLive) /\ Reconnect
    \/ (Within(MaxTransportsLive) \/ ~mountedRef) /\ \E t \in TransportIds : TimerFire(t)
    \/ Unmount
    \/ \E t \in TransportIds : OnOpen(t)
    \/ \E t \in TransportIds : OnError(t)
    \/ \E t \in TransportIds, code \in CloseCodes : OnClose(t, code)

SpecLive ==
    /\ Init
    /\ [][NextLive]_vars
    /\ WF_vars(Within(MaxTransportsLive) /\ Rerender)
    /\ WF_vars((Within(MaxTransportsLive) \/ ~mountedRef) /\ \E t \in TransportIds : TimerFire(t))

\* the close event the browser delivers after close() or after an error event
ClosingEvent ==
    \E t \in TransportIds, code \in CloseCodes :
        transports[t].rs \in {"closing", "failed"} /\ OnClose(t, code)

\* the session manager when the component mounts, React commits every render,
\* every timeout fires, every handshake completes and every close() is followed
\* by its close event
SpecConv ==
    /\ Init
    /\ [][NextLive]_vars
    /\ WF_vars(Within(MaxTransportsLive) /\ MountEffect)
    /\ WF_vars(Within(MaxTransportsLive) /\ Rerender)
    /\ WF_vars((Within(MaxTransportsLive) \/ ~mountedRef) /\ \E t \in TransportIds : TimerFire(t))
    /\ WF_vars(\E t \in TransportIds : OnOpen(t))
    /\ WF_vars(ClosingEvent)

\* useWorkflowWebSocket with a workflow: the session manager and the commits
NextSub ==
    \/ Within(MaxTransportsWF) /\ MountEffect
    \/ (Within(MaxTransportsWF) \/ ~RenderPending) /\ Room(SubscribeFrames, MaxSentWF) /\ Commit
    \/ Within(MaxTransportsWF) /\ Reconnect
    \/ (Within(MaxTransportsWF) \/ ~mountedRef) /\ \E t \in TransportIds : TimerFire(t)
    \/ Unmount
    \/ \E t \in TransportIds : OnOpen(t)
    \/ \E t \in TransportIds : OnError(t)
    \/ \E t \in TransportIds, code \in CloseCodes : OnClose(t, code)
    \/ Room(messages, MaxMessages) /\ \E t \in TransportIds, raw \in UpdateFrames : OnMessage(t, raw)

SpecSub == InitSub /\ [][NextSub]_vars

\* useWorkflowWebSocket whose caller changes the workflowId
InitProp == InitHook /\ workflowId \in WorkflowIds \cup {NoWorkflow}

NextProp ==
    \/ Within(MaxTransportsWF) /\ MountEffect
    \/ (Within(MaxTransportsWF) \/ ~RenderPending) /\ Room(SubscribeFrames, MaxSentWF) /\ Commit
    \/ /\ (Within(MaxTransportsWF) \/ ~RenderPending) /\ Room(SubscribeFrames, MaxSentWF)
       /\ \E wid \in WorkflowIds \cup {NoWorkflow} : SetWorkflowId(wid)
    \/ Within(MaxTransportsWF) /\ Reconnect
    \/ (Within(MaxTransportsWF) \/ ~mountedRef) /\ \E t \in TransportIds : TimerFire(t)
    \/ Unmount
    \/ \E t \in TransportIds : OnOpen(t)
    \/ \E t \in TransportIds : OnError(t)
    \/ \E t \in TransportIds, code \in CloseCodes : OnClose(t, code)

SpecProp == InitProp /\ [][NextProp]_vars

\* useWorkflowWebSocket with updates of several workflows in flight and a caller
\* that changes the workflowId. Reconnections are the automatic ones: without
\* reconnect() the commit of the counter change replaces the transport before
\* the reconnect timeout can fire, so no timeout fires here.
NextTopic ==
    \/ Within(MaxTransportsWF) /\ MountEffect
    \/ /\ (Within(MaxTransportsWF) \/ ~RenderPending) /\ Room(SubscribeFrames, MaxSentWF)
       /\ (Room(workflowUpdates, MaxUpdates) \/ ~ConsumeDue)
       /\ Commit
    \/ /\ (Within(MaxTransportsWF) \/ ~RenderPending) /\ Room(SubscribeFrames, MaxSentWF)
       /\ (Room(workflowUpdates, MaxUpdates) \/ ~ConsumeDue)
       /\ \E wid \in WorkflowIds \cup {NoWorkflow} : SetWorkflowId(wid)
    \/ Unmount
    \/ \E t \in TransportIds : OnOpen(t)
    \/ \E t \in TransportIds : OnError(t)
    \/ \E t \in TransportIds, code \in CloseCodes : OnClose(t, code)
    \/ Room(messages, MaxMessages) /\ \E t \in TransportIds, raw \in TopicFrames : OnMessage(t, raw)

SpecTopic == InitProp /\ [][NextTopic]_vars

\* useWorkflowWebSocket without a workflow: the frames received and the aggregator;
\* clearMessages is exercised in SpecIO
NextAgg ==
    \/ Within(MaxTransportsWF) /\ MountEffect
    \/ (Within(MaxTransportsWF) \/ ~RenderPending) /\ (Room(workflowUpdates, MaxUpdates) \/ ~ConsumeDue) /\ Commit
    \/ Within(MaxTransportsWF) /\ Reconnect
    \/ (Within(MaxTransportsWF) \/ ~mountedRef) /\ \E t \in TransportIds : TimerFire(t)
    \/ Unmount
    \/ \E t \in TransportIds : OnOpen(t)
    \/ \E t \in TransportIds : OnError(t)
    \/ \E t \in TransportIds, code \in CloseCodes : OnClose(t, code)
    \/ Room(messages, MaxMessagesWF) /\ \E t \in TransportIds, raw \in WorkflowFrames : OnMessage(t, raw)
    \/ ClearWorkflowUpdates

SpecAgg == Init /\ [][NextAgg]_vars

\* useWorkflowWebSocket without a workflow, frames of every kind
NextMix ==
    \/ Within(MaxTransportsWF) /\ MountEffect
    \/ (Within(MaxTransportsWF) \/ ~RenderPending) /\ (Room(workflowUpdates, MaxUpdates) \/ ~ConsumeDue) /\ Commit
    \/ Within(MaxTransportsWF) /\ Reconnect
    \/ (Within(MaxTransportsWF) \/ ~mountedRef) /\ \E t \in TransportIds : TimerFire(t)
    \/ Unmount
    \/ \E t \in TransportIds : OnOpen(t)
    \/ \E t \in TransportIds : OnError(t)
    \/ \E t \in TransportIds, code \in CloseCodes : OnClose(t, code)
    \/ Room(messages, MaxLog) /\ \E t \in TransportIds, raw \in MixedFrames : OnMessage(t, raw)

SpecMix == Init /\ [][NextMix]_vars

\* ---------------------------------------------------------------------------
\* Properties
\* ---------------------------------------------------------------------------

\* transports the manager has constructed and neither closed nor seen closed
LiveTransports == {t \in TransportIds : transports[t].rs \in {"connecting", "open"}}

IsCloseStep == lastEvent'.op = "close" /\ transports' # transports

\* C1: in every reachable state there is at most one live transport, at most
\* one pending reconnect timeout and at most one running heartbeat interval,
\* counting timeouts no ref points to any more.
C1_OneOfEach ==
    /\ Cardinality(LiveTransports) <= 1
    /\ Cardinality(pendingTimers) <= 1
    /\ Cardinality(pendingIntervals) <= 1

\* C2: an abnormal close handled while CONNECTED with reconnectAttempts below
\* the maximum gives RECONNECTING, and RECONNECTING is left for CONNECTING only
\* by the firing of the retry timeout (or by an explicit reconnect()).
C2_RetryOnlyByTimer ==
    [][/\ (IsCloseStep /\ mountedRef /\ lastEvent'.code # NormalClosure
             /\ connectionState = CONNECTED
             /\ reconnectAttempts < MaxReconnectAttempts)
          => connectionState' = RECONNECTING
       /\ (connectionState = RECONNECTING /\ connectionState' = CONNECTING
             /\ lastEvent.op = "close" /\ lastEvent.t = wsRef
             /\ transports[wsRef].opened)
          => lastEvent'.op \in {"timer", "reconnect"}]_vars

\* C3: a close with code 1000 gives DISCONNECTED, schedules no timeout, leaves
\* reconnectAttempts alone, and no transport is constructed afterwards until
\* reconnect() is called.
C3_NormalClosureTerminal ==
    [][/\ (IsCloseStep /\ mountedRef /\ lastEvent'.code = NormalClosure)
          => /\ connectionState' = DISCONNECTED
             /\ pendingTimers' \subseteq pendingTimers
             /\ reconnectAttempts' = reconnectAttempts
             /\ nCreated' = nCreated
       /\ (closedNormally /\ nCreated' > nCreated)
          => lastEvent'.op = "reconnect"]_vars

\* C4: while every attempt has failed (no open, no normal close, no
\* reconnect()), the manager constructs at most 1 + maxReconnectAttempts
\* transports, and once the last of them has closed it rests: DISCONNECTED, no
\* timeout pending, no commit outstanding, no live transport.
C4_BoundedRetries ==
    (onlyFailures /\ phase = "mounted")
    => /\ nCreated <= MaxReconnectAttempts + 1
       /\ (nCreated = MaxReconnectAttempts + 1 /\ transports[nCreated].rs = "closed")
          => /\ connectionState = DISCONNECTED
             /\ reconnectAttempts = MaxReconnectAttempts
             /\ pendingTimers = {}
             /\ ~RenderPending
             /\ LiveTransports = {}

C4_Witness ==
    /\ onlyFailures
    /\ phase = "mounted"
    /\ nCreated = MaxReconnectAttempts + 1
    /\ transports[nCreated].rs = "closed"

\* C5 as stated: reconnect() always ends with reconnectAttempts = 0, state
\* CONNECTING and a newly constructed transport as the only live one.
C5_ReconnectConnects ==
    [][lastEvent'.op = "reconnect"
       => /\ reconnectAttempts' = 0
          /\ connectionState' = CONNECTING
          /\ nCreated' = nCreated + 1
          /\ wsRef' = nCreated'
          /\ LiveTransports' = {wsRef'}]_vars

\* C5 amended: reconnect() ends with reconnectAttempts = 0 and, when the
\* transport can be constructed, state CONNECTING with the new transport as the
\* only live one; when construction throws, state ERROR and no live transport.
C5_ReconnectConnectsIfConstructible ==
    [][lastEvent'.op = "reconnect"
       => /\ reconnectAttempts' = 0
          /\ urlValid => /\ connectionState' = CONNECTING
                         /\ nCreated' = nCreated + 1
                         /\ wsRef' = nCreated'
                         /\ LiveTransports' = {wsRef'}
          /\ ~urlValid => /\ connectionState' = ERROR
                          /\ nCreated' = nCreated
                          /\ wsRef' = 0
                          /\ LiveTransports' = {}]_vars

C5_Witness ==
    /\ lastEvent.op = "reconnect"
    /\ manualReset = 1
    /\ connectionState = CONNECTING
    /\ reconnectAttempts = 0
    /\ LiveTransports = {wsRef}

\* C6: after a reconnect() made at exhausted budget, the commit that follows
\* serves the session with a transport whose handlers captured 0, and an
\* abnormal close of the serving transport is retried: RECONNECTING, a timeout
\* scheduled, reconnectAttempts = 1.
C6_BudgetRestored ==
    [][/\ (manualReset = 1 /\ lastEvent.op = "reconnect" /\ lastEvent'.op = "rerender"
             /\ urlValid)
          => /\ reconnectAttempts' = 0
             /\ transports'[wsRef'].cap = 0
       /\ (manualReset = 1 /\ ~RenderPending /\ mountedRef /\ IsCloseStep
             /\ lastEvent'.t = wsRef /\ lastEvent'.code # NormalClosure)
          => /\ connectionState' = RECONNECTING
             /\ reconnectAttempts' = 1
             /\ wsRef \in pendingTimers'
             /\ reconnectTimeoutRef' = wsRef]_vars

C6_Witness ==
    /\ manualReset = 2
    /\ lastEvent.op = "close"
    /\ lastEvent.t = wsRef
    /\ wsRef >= 2
    /\ transports[wsRef].cap = 0
    /\ transports[wsRef - 1].cap = MaxReconnectAttempts
    /\ connectDep = 0
    /\ connectionState = RECONNECTING

\* C7: a frame given to sendMessage is transmitted only if connectionState is
\* CONNECTED at the call.
C7_SendOnlyWhenConnected ==
    [][(Len(sent') > Len(sent) /\ sent'[Len(sent')].frame.type \notin {"ping", "subscribe"})
       => connectionState = CONNECTED]_vars

\* C8: sendMessage with the transport absent or not open changes neither the
\* state, the counter, the handle, the timers nor the message log.
C8_DroppedSendChangesNothing ==
    [][((\E m \in Outbound : SendMessage(m)) /\ ~CanSend(Session))
       => UNCHANGED <<connectionState, reconnectAttempts, wsRef, reconnectTimeoutRef,
                      pingIntervalRef, transports, pendingTimers, pendingIntervals,
                      messages, lastMessage, sent>>]_vars

C8_Witness ==
    /\ lastEvent.op = "warn"
    /\ wsRef # 0
    /\ transports[wsRef].rs = "connecting"

\* C9: after the final teardown no event and no timeout changes the state, the
\* counter, the message log, the handle or the timer refs, and no transport is
\* constructed.
C9_NoOpAfterTeardown ==
    [][phase = "unmounted"
       => /\ UNCHANGED <<connectionState, reconnectAttempts, messages, lastMessage,
                         wsRef, reconnectTimeoutRef, pingIntervalRef>>
          /\ nCreated' = nCreated]_vars

C9_Witness ==
    /\ phase = "unmounted"
    /\ lastEvent.op = "close"
    /\ lastEvent.code = AbnormalClosure
    /\ transports[lastEvent.t].cap < MaxReconnectAttempts

\* C10: cleanup() run in any reachable state leaves a null handle, no pending
\* reconnect timeout and no running interval, and a second cleanup() changes
\* nothing.
C10_CleanupComplete ==
    LET c == cleanup(Session)
    IN  /\ c.ws = 0
        /\ c.rt = 0
        /\ c.pi = 0
        /\ c.timers = {}
        /\ c.intervals = {}
        /\ cleanup(c) = c

\* a frame delivered while the hook is mounted
IsMessageStep == lastEvent'.op = "message" /\ mountedRef

C12_UndecodableFrameIsText ==
    [][\A t \in TransportIds : \A raw \in RawFrames :
          (~IsJSON(raw) /\ mountedRef /\ OnMessage(t, raw))
          => /\ lastMessage'.type = "text"
             /\ lastMessage'.content = raw
             /\ messages' = Append(messages, lastMessage')
             /\ UNCHANGED <<connectionState, reconnectAttempts, sessionRefs, browser>>]_vars

C12_Witness ==
    /\ lastEvent.op = "message"
    /\ mountedRef
    /\ connectionState = CONNECTED
    /\ messages = <<TextEnvelope("hello")>>
    /\ lastMessage = TextEnvelope("hello")

\* C13: with a workflowId set, the number of subscribe frames sent equals the
\* number of false-to-true transitions of isConnected; no subscribe is sent in
\* a commit in which the condition merely stays true.
C13_OneSubscribePerEntry ==
    workflowId # NoWorkflow => Len(SubscribeFrames) = edges

\* the current transport carries a subscribe frame for the current workflowId
SubscribedOn(t) ==
    \E i \in 1..Len(sent) : sent[i] = [ws |-> t, frame |-> SubscribeFrame(workflowId)]

WorkflowMessages == SelectSeq(messages, IsWorkflowUpdate)

\* C15: when no clear has happened and the lastMessage effect has run for the
\* latest message, workflowUpdates is the subsequence of the published messages
\* whose type is workflow_started, workflow_completed or agent_status.
C15_AggregatorConsumesAll ==
    (~cleared /\ ~msgFresh) => workflowUpdates = WorkflowMessages

\* C16: currentWorkflowStatus is null exactly when workflowUpdates is empty, and
\* otherwise it is {status, progress or 0, currentAgent or "", message} of the
\* last element of workflowUpdates alone.
C16_StatusIsLastUpdate ==
    /\ (workflowUpdates = <<>>) <=> (currentWorkflowStatus = NoStatus)
    /\ workflowUpdates # <<>> =>
          LET u == workflowUpdates[Len(workflowUpdates)]
          IN  /\ currentWorkflowStatus.status = u.status
              /\ currentWorkflowStatus.message = u.message
              /\ currentWorkflowStatus.progress =
                    (IF u.progress_percentage = NoProgress THEN 0 ELSE u.progress_percentage)
              /\ currentWorkflowStatus.currentAgent =
                    (IF u.agent_name = Absent THEN "" ELSE u.agent_name)

C16_Witness ==
    /\ Len(workflowUpdates) = 2
    /\ workflowUpdates[1].agent_name = "Data"
    /\ workflowUpdates[1].progress_percentage = 50
    /\ workflowUpdates[2].agent_name = Absent
    /\ workflowUpdates[2].progress_percentage = NoProgress
    /\ currentWorkflowStatus.currentAgent = ""
    /\ currentWorkflowStatus.progress = 0

\* C17: clearWorkflowUpdates leaves workflowUpdates empty and
\* currentWorkflowStatus null and changes nothing else, and an update that was
\* consumed before is not appended again: workflowUpdates grows only when a new
\* lastMessage has arrived.
C17_ClearWorkflowUpdatesOnly ==
    [][/\ lastEvent'.op = "clearUpdates"
          => /\ workflowUpdates' = <<>>
             /\ currentWorkflowStatus' = NoStatus
             /\ UNCHANGED <<connectionState, reconnectAttempts, sessionRefs, browser,
                            messages, lastMessage, sent>>
       /\ ~msgFresh => workflowUpdates' \in {workflowUpdates, <<>>}]_vars

C17_Witness ==
    /\ lastEvent.op = "commit"
    /\ cleared
    /\ ~msgFresh
    /\ workflowUpdates = <<>>
    /\ currentWorkflowStatus = NoStatus
    /\ messages # <<>>
    /\ IsWorkflowUpdate(lastMessage)
    /\ connectionState = DISCONNECTED

\* the open event of the current transport, handled while mounted
IsOpenStep == lastEvent'.op = "open" /\ lastEvent'.t = wsRef /\ mountedRef

\* C18: the open event of the current transport sets the state to CONNECTED and
\* reconnectAttempts to 0 and starts one heartbeat interval for that transport,
\* which is then the only interval running.
C18_OpenConnects ==
    [][IsOpenStep
       => /\ connectionState' = CONNECTED
          /\ reconnectAttempts' = 0
          /\ wsRef \notin pendingIntervals
          /\ pingIntervalRef' = wsRef
          /\ pendingIntervals' = {wsRef}
          /\ wsRef' = wsRef]_vars

C18_Witness ==
    /\ lastEvent.op = "open"
    /\ lastEvent.t = wsRef
    /\ mountedRef
    /\ wsRef >= 2
    /\ transports[wsRef].cap > 0
    /\ transports[wsRef - 1].opened
    /\ connectionState = CONNECTED
    /\ reconnectAttempts = 0
    /\ pendingIntervals = {wsRef}

\* C19: whenever the state is CONNECTED and the current transport is open, the
\* heartbeat interval in pingIntervalRef is running, so each of its periods
\* sends a ping on that transport.
C19_HeartbeatWhileConnected ==
    (connectionState = CONNECTED /\ wsRef # 0 /\ transports[wsRef].rs = "open")
    => (pingIntervalRef # 0 /\ pingIntervalRef \in pendingIntervals /\ CanSend(Session))

C19_Witness ==
    /\ connectionState = CONNECTED
    /\ mountedRef
    /\ wsRef = 2
    /\ transports[2].rs = "open"
    /\ transports[1].opened
    /\ transports[1].rs = "closed"
    /\ pingIntervalRef = 2
    /\ pendingIntervals = {2}

\* an error event handled while mounted
IsErrorStep == lastEvent'.op = "error" /\ mountedRef

\* C20: an error event of any transport, in any state, sets the state to ERROR
\* and does nothing else: no timer is scheduled or cancelled, reconnectAttempts
\* keeps its value, and the handle, the heartbeat interval and every other
\* transport are left as they are.
C20_ErrorOnlySetsState ==
    [][IsErrorStep
       => /\ connectionState' = ERROR
          /\ UNCHANGED <<reconnectAttempts, wsRef, reconnectTimeoutRef, pingIntervalRef,
                         pendingTimers, pendingIntervals, nCreated>>
          /\ \A u \in TransportIds \ {lastEvent'.t} : transports'[u] = transports[u]
          /\ transports'[lastEvent'.t].rs = "failed"]_vars

C20_Witness ==
    /\ lastEvent.op = "error"
    /\ mountedRef
    /\ connectionState = ERROR
    /\ lastEvent.t = wsRef
    /\ transports[wsRef].rs = "failed"
    /\ transports[wsRef].opened
    /\ pingIntervalRef = wsRef
    /\ wsRef \in pendingIntervals
    /\ reconnectAttempts = 0

\* a step in which connect() ran while mounted
IsConnectStep ==
    /\ lastEvent'.op \in {"mount", "rerender", "reconnect", "timer"}
    /\ IF lastEvent'.op = "timer" THEN mountedRef ELSE mountedRef'

\* C21: when constructing the transport fails inside connect(), the state
\* becomes ERROR, connect() leaves reconnectAttempts as it is, no reconnect timer
\* and no heartbeat interval is pending, the handle is null, and no transport is
\* constructed afterwards without a new call from outside.
C21_ConstructionFailureIsError ==
    [][(IsConnectStep /\ ~urlValid)
       => /\ connectionState' = ERROR
          /\ lastEvent'.op # "reconnect" => reconnectAttempts' = reconnectAttempts
          /\ wsRef' = 0
          /\ reconnectTimeoutRef' = 0
          /\ pingIntervalRef' = 0
          /\ pendingTimers' = {}
          /\ pendingIntervals' = {}
          /\ nCreated' = nCreated]_vars

C21_Witness ==
    /\ ~urlValid
    /\ lastEvent.op = "reconnect"
    /\ mountedRef
    /\ connectionState = ERROR
    /\ wsRef = 0
    /\ nCreated = 0

\* no retry timer is pending and no transport has an event to deliver
Quiescent ==
    /\ pendingTimers = {}
    /\ \A t \in TransportIds : transports[t].rs \in {"open", "closed"}

\* C22: the Reconnect button is rendered exactly in ERROR and DISCONNECTED, and
\* in every state of the mounted hook with no retry timer and no transport
\* event pending in which the state is not CONNECTED, the button is rendered.
C22_ReconnectOffered ==
    /\ showReconnectButton(connectionState) <=> connectionState \in {ERROR, DISCONNECTED}
    /\ (phase = "mounted" /\ Quiescent /\ connectionState # CONNECTED)
       => showReconnectButton(connectionState)

C22_Witness ==
    /\ phase = "mounted"
    /\ Quiescent
    /\ nCreated >= 2
    /\ connectionState = DISCONNECTED
    /\ reconnectAttempts = MaxReconnectAttempts
    /\ lastEvent.op = "close"
    /\ lastEvent.code = AbnormalClosure
    /\ showReconnectButton(connectionState)

\* C23: every connect() that runs while mounted performs cleanup() before it
\* constructs the transport: the timer in reconnectTimeoutRef and the heartbeat
\* interval are cleared, the previous transport is closed, and the handle names
\* the new transport.
C23_CleanupBeforeConnect ==
    [][(IsConnectStep /\ urlValid)
       => /\ nCreated' = nCreated + 1
          /\ wsRef' = nCreated'
          /\ reconnectTimeoutRef' = 0
          /\ reconnectTimeoutRef # 0 => reconnectTimeoutRef \notin pendingTimers'
          /\ pingIntervalRef' = 0
          /\ pendingIntervals' = {}
          /\ wsRef # 0 => transports'[wsRef].rs \notin {"connecting", "open"}
          /\ LiveTransports' = {wsRef'}]_vars

C23_Witness ==
    /\ lastEvent.op = "reconnect"
    /\ mountedRef
    /\ wsRef >= 2
    /\ transports[wsRef].rs = "connecting"
    /\ transports[wsRef - 1].opened
    /\ transports[wsRef - 1].rs = "closing"
    /\ pendingIntervals = {}
    /\ pingIntervalRef = 0

\* C24: while the hook is mounted and the state is RECONNECTING, the retry timer
\* of reconnectTimeoutRef is pending, and the state becomes CONNECTING with a
\* new current transport unless the hook is unmounted first (or the bound on
\* transports is reached); a timeout that fires after the unmount constructs no
\* transport and changes no state.
C24_ReconnectingIsTransient ==
    /\ []((connectionState = RECONNECTING /\ mountedRef)
           => (reconnectTimeoutRef # 0 /\ reconnectTimeoutRef \in pendingTimers))
    /\ [][(lastEvent'.op = "timer" /\ ~mountedRef)
           => (nCreated' = nCreated /\ connectionState' = connectionState)]_vars
    /\ (connectionState = RECONNECTING /\ mountedRef)
          ~> \/ /\ connectionState = CONNECTING
                /\ wsRef # 0
                /\ transports[wsRef].rs = "connecting"
             \/ phase = "unmounted"
             \/ ~Within(MaxTransportsLive)

C24_Witness ==
    /\ lastEvent.op = "close"
    /\ connectionState = RECONNECTING
    /\ mountedRef
    /\ Within(MaxTransportsLive)
    /\ reconnectTimeoutRef = lastEvent.t
    /\ transports[lastEvent.t].opened
    /\ lastEvent.t = wsRef

\* C25: the close event of the current transport, handled while mounted, leaves
\* no heartbeat interval running, whatever the code and the attempt count; and
\* in every state that is DISCONNECTED or RECONNECTING with no transport open,
\* no heartbeat interval is live.
C25_NoHeartbeatAfterClose ==
    /\ [][(IsCloseStep /\ lastEvent'.t = wsRef /\ mountedRef)
           => (pendingIntervals' = {} /\ pingIntervalRef' = 0)]_vars
    /\ []((/\ connectionState \in {DISCONNECTED, RECONNECTING}
            /\ \A t \in TransportIds : transports[t].rs # "open")
           => (pendingIntervals = {} /\ pingIntervalRef = 0))

C25_Witness ==
    /\ lastEvent.op = "close"
    /\ lastEvent.t = wsRef
    /\ lastEvent.code = AbnormalClosure
    /\ mountedRef
    /\ transports[wsRef].opened
    /\ transports[wsRef].cap = MaxReconnectAttempts
    /\ connectionState = DISCONNECTED
    /\ pendingIntervals = {}

\* C26: the close event of the current transport that follows its error event,
\* handled while mounted, leaves RECONNECTING with a retry scheduled when the
\* code is not 1000 and reconnectAttempts < maxReconnectAttempts, and
\* DISCONNECTED otherwise; it never leaves ERROR.
C26_CloseAfterErrorDecides ==
    [][(/\ IsCloseStep
        /\ mountedRef
        /\ lastEvent'.t = wsRef
        /\ transports[wsRef].rs = "failed")
       => IF lastEvent'.code # NormalClosure /\ reconnectAttempts < MaxReconnectAttempts
          THEN /\ connectionState' = RECONNECTING
               /\ reconnectTimeoutRef' # 0
               /\ reconnectTimeoutRef' \in pendingTimers'
          ELSE connectionState' = DISCONNECTED]_vars

\* C27: reconnectAttempts changes only by an abnormal closure that schedules a
\* retry (plus one), by an open event (to 0) or by reconnect() (to 0); every
\* other step, and a closure while the counter is at maxReconnectAttempts,
\* leaves it unchanged.
C27_CounterChanges ==
    [][/\ reconnectAttempts' # reconnectAttempts
          => \/ /\ IsCloseStep
                /\ lastEvent'.code # NormalClosure
                /\ reconnectAttempts' = reconnectAttempts + 1
                /\ reconnectTimeoutRef' = lastEvent'.t
                /\ lastEvent'.t \in pendingTimers'
             \/ lastEvent'.op \in {"open", "reconnect"} /\ reconnectAttempts' = 0
       /\ (IsCloseStep /\ reconnectAttempts >= MaxReconnectAttempts)
          => reconnectAttempts' = reconnectAttempts]_vars

\* C28: in every reachable state 0 <= reconnectAttempts <= maxReconnectAttempts,
\* under any interleaving of close events (those of transports the manager
\* itself closed included), open events, timer firings and reconnect() calls.
C28_CounterWithinLimit ==
    reconnectAttempts >= 0 /\ reconnectAttempts <= MaxReconnectAttempts

\* C29: mountedRef goes from true to false once, at the final teardown, and is
\* never set back to true afterwards: every assignment of false to the flag is
\* the last assignment of its effect run and belongs to the unmount; a change
\* of reconnectAttempts or of another connect() dependency does not toggle it.
C29_FlagFallsOnce ==
    \A i \in 1..Len(mountedWrites) :
        mountedWrites[i] = FALSE => (i = Len(mountedWrites) /\ phase = "unmounted")

\* C30: session isolation. An open, close, error or message event of a
\* transport that is no longer the current one (cleanup() closed it and
\* connect() replaced it) never changes connectionState or reconnectAttempts,
\* never clears the heartbeat interval of the current transport and never
\* schedules a reconnect timer.
C30_SessionIsolation ==
    [][(/\ lastEvent'.op \in {"open", "close", "error", "message"}
        /\ lastEvent'.t # wsRef)
          => /\ connectionState' = connectionState
             /\ reconnectAttempts' = reconnectAttempts
             /\ pingIntervalRef' = pingIntervalRef
             /\ pendingIntervals' = pendingIntervals
             /\ reconnectTimeoutRef' = reconnectTimeoutRef
             /\ pendingTimers' = pendingTimers]_vars

\* C31: the manager never tears down a healthy connection on its own. Once
\* the current transport has opened it remains the current transport and stays
\* open until a close or error event for it, a reconnect() call or the final
\* teardown occurs; this includes the open after an automatic retry, when
\* reconnectAttempts drops from a positive value to 0.
C31_HealthyConnectionKept ==
    [][(/\ wsRef # 0
        /\ transports[wsRef].rs = "open"
        /\ \/ wsRef' # wsRef
           \/ transports'[wsRef].rs # "open")
          => \/ lastEvent'.op \in {"reconnect", "unmount"}
             \/ /\ lastEvent'.op \in {"close", "error"}
                /\ lastEvent'.t = wsRef]_vars

IsPrefix(a, b) == Len(a) <= Len(b) /\ SubSeq(b, 1, Len(a)) = a

\* C32: the dispatcher log is append-only and in arrival order. A step other
\* than clearMessages leaves the earlier log as a prefix of the later one, the
\* log grows only by a message event, which puts the Envelope of the delivered
\* frame at the end, and this holds across reconnections as well.
C32_LogAppendOnly ==
    [][/\ lastEvent'.op # "clear" => IsPrefix(messages, messages')
       /\ (lastEvent'.op # "clear" /\ messages' # messages)
          => /\ lastEvent'.op = "message"
             /\ \E raw \in PlainFrames : messages' = Append(messages, Envelope(raw))
       /\ \A t \in TransportIds : \A raw \in PlainFrames :
             (mountedRef /\ OnMessage(t, raw))
             => messages' = Append(messages, Envelope(raw))]_vars

\* a log of two different frames in arrival order after a reconnection, the
\* last one delivered by the transport that replaced the first
C32_Witness ==
    /\ lastEvent.op = "message"
    /\ lastEvent.t = 2
    /\ wsRef = 2
    /\ transports[1].opened
    /\ mountedRef
    /\ Len(messages) = 2
    /\ messages[1] = Envelope("{pong}")
    /\ messages[2] = Envelope("hello")

\* an Envelope the aggregator has no use for
NonMatching(m) == m.type \notin {"workflow_started", "workflow_completed", "agent_status"}

\* C33: an inbound Envelope whose type is not workflow_started,
\* workflow_completed or agent_status (pong, text, an unrecognized type) is
\* still appended to the dispatcher log, and neither its delivery nor the commit
\* that follows changes workflowUpdates or currentWorkflowStatus.
C33_NonMatchingKeptAndIgnored ==
    [][/\ \A t \in TransportIds : \A raw \in MixedFrames :
             (mountedRef /\ NonMatching(Envelope(raw)) /\ OnMessage(t, raw))
             => /\ messages' = Append(messages, Envelope(raw))
                /\ lastMessage' = Envelope(raw)
                /\ UNCHANGED <<workflowUpdates, currentWorkflowStatus>>
       /\ (lastEvent'.op = "commit" /\ NonMatching(lastMessage))
          => UNCHANGED <<workflowUpdates, currentWorkflowStatus, messages, lastMessage>>]_vars

C33_Witness ==
    /\ lastEvent.op = "commit"
    /\ ~msgFresh
    /\ messages = <<Envelope("{agent_status}"), Envelope("{custom}")>>
    /\ lastMessage.type = "unknown"
    /\ workflowUpdates = <<Envelope("{agent_status}")>>
    /\ currentWorkflowStatus = StatusOf(Envelope("{agent_status}"))

\* C34: when workflowId changes from one non-null value to a different
\* non-null value while the state stays CONNECTED, a subscribe frame carrying
\* the new workflowId is sent; when workflowId is null or the state is not
\* CONNECTED, no subscribe frame is sent.
C34_ResubscribeOnNewWorkflow ==
    [][/\ (/\ lastEvent'.op = "setWorkflowId"
           /\ workflowId # NoWorkflow
           /\ workflowId' # NoWorkflow
           /\ connectionState = CONNECTED
           /\ connectionState' = CONNECTED)
          => sent' = Append(sent, [ws |-> wsRef, frame |-> SubscribeFrame(workflowId')])
       /\ Len(SubscribeFrames') > Len(SubscribeFrames)
          => /\ workflowId' # NoWorkflow
             /\ connectionState = CONNECTED
             /\ SubscribeFrames'[Len(SubscribeFrames')].frame.workflow_id = workflowId']_vars

C34_Witness ==
    /\ lastEvent.op = "setWorkflowId"
    /\ connectionState = CONNECTED
    /\ workflowId = "w2"
    /\ wsRef = 1
    /\ sent = <<[ws |-> 1, frame |-> SubscribeFrame("w1")],
                [ws |-> 1, frame |-> SubscribeFrame("w2")]>>

\* C35: the aggregator does not filter by topic. The commit that meets a new
\* workflow-status Envelope appends it to workflowUpdates and folds it into
\* currentWorkflowStatus whatever its workflow_id, also when it differs from
\* the current workflowId or when workflowId is unset; a change of workflowId
\* does to workflowUpdates and currentWorkflowStatus what the commit of an
\* unchanged workflowId does, and nothing when no new Envelope has arrived.
C35_NoTopicFilter ==
    [][/\ (/\ lastEvent'.op \in {"commit", "setWorkflowId"}
           /\ msgFresh
           /\ lastMessage.type \in {"workflow_started", "workflow_completed", "agent_status"})
          => /\ workflowUpdates' = Append(workflowUpdates, lastMessage)
             /\ currentWorkflowStatus' = StatusOf(lastMessage)
       /\ (lastEvent'.op = "setWorkflowId" /\ ~msgFresh)
          => UNCHANGED <<workflowUpdates, currentWorkflowStatus>>]_vars

\* an update of workflow w2 folded by a commit while the hook follows w1
C35_Witness ==
    /\ lastEvent.op = "commit"
    /\ workflowId = "w1"
    /\ workflowUpdates = <<Envelope("{agent_status:w2}")>>
    /\ currentWorkflowStatus = StatusOf(Envelope("{agent_status:w2}"))
    /\ SubscribeFrames # <<>>
    /\ SubscribeFrames[1].frame.workflow_id = "w1"

\* C36: a reconnection, automatic or manual, changes only session state.
\* The mount effect, its teardown, reconnect(), the retry timeout and the open,
\* close and error events leave messages, lastMessage, workflowUpdates and
\* currentWorkflowStatus unchanged, and the commit that re-runs the mount effect
\* changes the last two only by folding an Envelope that arrived since the last
\* commit: no update already received is lost, duplicated or folded again.
C36_ReconnectKeepsData ==
    [][/\ lastEvent'.op \in {"mount", "rerender", "reconnect", "timer", "unmount",
                             "open", "close", "error"}
          => UNCHANGED <<messages, lastMessage, workflowUpdates, currentWorkflowStatus>>
       /\ (lastEvent'.op = "commit" /\ RenderPending)
          => /\ UNCHANGED <<messages, lastMessage>>
             /\ IF msgFresh /\ ~NonMatching(lastMessage)
                THEN /\ workflowUpdates' = Append(workflowUpdates, lastMessage)
                     /\ currentWorkflowStatus' = StatusOf(lastMessage)
                ELSE UNCHANGED <<workflowUpdates, currentWorkflowStatus>>]_vars

\* an update received on the first transport, still there once after the retry
\* has replaced that transport and the commit has run
C36_Witness ==
    /\ lastEvent.op = "commit"
    /\ wsRef = 2
    /\ transports[1].rs = "closed"
    /\ transports[2].cap = 1
    /\ ~msgFresh
    /\ messages = <<Envelope("{agent_status}")>>
    /\ lastMessage = Envelope("{agent_status}")
    /\ workflowUpdates = <<Envelope("{agent_status}")>>
    /\ currentWorkflowStatus = StatusOf(Envelope("{agent_status}"))

\* a close or error event of a transport on which the manager has not called
\* close(): the server, or the network, ended it
ServerEndsTransport ==
    /\ lastEvent'.op \in {"close", "error"}
    /\ transports' # transports
    /\ transports[lastEvent'.t].rs \in {"connecting", "open"}

\* a step of the calm period: no transport ended by the server, no reconnect(),
\* no unmount
CalmStep ==
    /\ ~ServerEndsTransport
    /\ lastEvent'.op \notin {"reconnect", "unmount"}

\* the bound on transports keeps a due connect() from running
AtTransportBound ==
    ~Within(MaxTransportsLive) /\ (RenderPending \/ pendingTimers # {})

Converged ==
    /\ connectionState = CONNECTED
    /\ reconnectAttempts = 0
    /\ wsRef # 0
    /\ LiveTransports = {wsRef}
    /\ transports[wsRef].rs = "open"
    /\ pingIntervalRef # 0
    /\ pendingIntervals = {pingIntervalRef}

\* C37: convergence. If from some point on no transport is closed or failed by
\* the server, reconnect() and unmount are not called any more and every
\* transport constructed opens, then with fair scheduling of commits, events
\* and timeouts the manager reaches, and stays forever in, the state CONNECTED
\* with reconnectAttempts = 0, one open transport and one heartbeat interval.
C37_Convergence ==
    (/\ <>[][CalmStep]_vars
     /\ <>[]~AtTransportBound
     /\ []urlValid
     /\ <>[](phase = "mounted"))
    => <>[]Converged

====
